---- MODULE Spec2Model ----
(***************************************************************************)
(* Credit ledger, subscription manager, feature gate and QR payment        *)
(* verification of the PraxisAI backend (src/backend/agentic.py,           *)
(* src/backend/credit_system.py, src/backend/deploy_database_functions.py, *)
(* src/backend/setup_database.py, src/backend/give_pro_access.py).         *)
(*                                                                         *)
(* The relational store is modelled by its COMMITTED contents.  psycopg2   *)
(* connections are opened without autocommit, so a handler's statements    *)
(* reach the store only when the handler calls conn.commit(); a handler    *)
(* that closes its connection without commit leaves the store unchanged.   *)
(* Every worker is one server process with its own connection; a handler   *)
(* is split into steps at the points where another process can observe or  *)
(* change the committed rows it read (READ COMMITTED isolation).           *)
(* Time is counted in minutes.                                             *)
(***************************************************************************)
EXTENDS Integers, FiniteSets, Sequences, TLC

\* ---------------------------------------------------------------- bounds
MaxTicks == 2
MaxPayments == 2
MaxSessions == 1
MaxLog == 4

\* ------------------------------------------------------ program constants
DEFAULT_CREDITS_LIMIT == 5
PRO_SENTINEL == 999
QR_VALIDITY_MINUTES == 30
MAX_SESSION_DURATION == 24
DEFAULT_MAX_MESSAGES == 10
MONTHLY_DAYS == 30
YEARLY_DAYS == 365
LIFETIME_DAYS == 36500
MINUTES_PER_DAY == 24 * 60

Users == {"u1", "u2"}
Workers == {"w1", "w2"}
\* the one process of a single-process deployment
SoloWorkers == {"w1"}
PayIds == 1 .. MaxPayments
SessionIds == 1 .. MaxSessions

\* The user give_pro_access.py looks up by its hard-coded e-mail address.
GrantedUser == "u1"

NoRow == [absent |-> TRUE]
NULL == -1

\* pro_features as seeded by setup_database(): four features, each requiring
\* pro and costing one credit.
ProFeatureNames ==
    {"deep_study_mode", "study_plan_generator", "problem_generator", "pro_ai_chat"}

pro_features ==
    [f \in ProFeatureNames |-> [requires_pro |-> TRUE, credits_required |-> 1]]

\* Feature names the gated handlers pass to check_and_consume_credit
\* (chat_message, problem_solve, require_pro_access's feature_mapping).
GateFeatures == {"pro_ai_chat", "problem_generator"}

\* Feature names a client may send to POST /credits/consume (any string).
RequestFeatures == {"pro_ai_chat", "quick_help"}

PaidTiers == {"pro_monthly", "pro_yearly"}
AllTiers == PaidTiers \cup {"pro_lifetime"}

\* Clock advances between two observations: just over the QR validity window
\* for the payment handlers; a minute or just over a month for subscriptions.
PayTickSteps == {QR_VALIDITY_MINUTES + 1}
SubTickSteps == {1, MONTHLY_DAYS * MINUTES_PER_DAY + 1}

VARIABLES
    now,                 \* wall clock / database clock, minutes
    ticks,               \* number of clock advances so far
    daily_credits,       \* user -> today's row of daily_credits, or NoRow
    credit_usage_logs,   \* rows of credit_usage_logs (as a set)
    pro_subscriptions,   \* user -> row of pro_subscriptions, or NoRow
    user_subscriptions,  \* user -> row of user_subscriptions, or NoRow
    payment_qr_codes,    \* payment -> row of payment_qr_codes, or NoRow
    payment_transactions,\* payment -> row of payment_transactions, or NoRow
    pc,                  \* worker -> position inside the handler it runs
    local,               \* worker -> the running handler's local variables
    resp,                \* what the handler that has just returned answered, else NoResp
    upgrades,            \* payment -> number of subscription upgrades it triggered
    study_sessions,      \* session -> row of study_sessions, or NoRow
    ended,               \* sessions whose row has been deleted
    db_up,               \* whether the relational store accepts connections
    db_connection,       \* worker -> whether its SubscriptionManager holds a connection
    trial_usage_log      \* user -> features of the user's trial_usage_log rows of today

vars == <<now, ticks, daily_credits, credit_usage_logs, pro_subscriptions,
          user_subscriptions, payment_qr_codes, payment_transactions,
          pc, local, resp, upgrades, study_sessions, ended,
          db_up, db_connection, trial_usage_log>>

sessionVars == <<study_sessions, ended>>

connVars == <<db_up, db_connection>>

ledgerVars == <<daily_credits, credit_usage_logs, pro_subscriptions,
                user_subscriptions, payment_qr_codes, payment_transactions>>

storeVars == <<ledgerVars, sessionVars>>

NoLocal == [op |-> "none"]
NoResp == [op |-> "none"]

Idle(w) == pc[w] = "idle"

\* A handler returns: the worker is idle again and its response is recorded.
Return(w, r) ==
    /\ pc' = [pc EXCEPT ![w] = "idle"]
    /\ local' = [local EXCEPT ![w] = NoLocal]
    /\ resp' = r

Goto(w, label, l) ==
    /\ pc' = [pc EXCEPT ![w] = label]
    /\ local' = [local EXCEPT ![w] = l]
    /\ resp' = NoResp

Init ==
    /\ now = 0
    /\ ticks = 0
    /\ daily_credits = [u \in Users |-> NoRow]
    /\ credit_usage_logs = {}
    /\ pro_subscriptions = [u \in Users |-> NoRow]
    /\ user_subscriptions = [u \in Users |-> NoRow]
    /\ payment_qr_codes = [q \in PayIds |-> NoRow]
    /\ payment_transactions = [q \in PayIds |-> NoRow]
    /\ pc = [w \in Workers |-> "idle"]
    /\ local = [w \in Workers |-> NoLocal]
    /\ resp = NoResp
    /\ upgrades = [q \in PayIds |-> 0]
    /\ study_sessions = [s \in SessionIds |-> NoRow]
    /\ ended = {}
    /\ db_up = TRUE
    /\ db_connection = [w \in Workers |-> TRUE]
    /\ trial_usage_log = [u \in Users |-> <<>>]

Tick(d) ==
    /\ ticks < MaxTicks
    /\ now' = now + d
    /\ ticks' = ticks + 1
    /\ resp' = NoResp
    /\ UNCHANGED <<storeVars, connVars, pc, local, upgrades, trial_usage_log>>

\* ---------------------------------------------------------- credit ledger

\* agentic.py:66-70: the gate's subscription lookup, a row of
\* pro_subscriptions with subscription_status = 'pro' (expires_at is not read).
GateIsPro(u) ==
    /\ pro_subscriptions[u] # NoRow
    /\ pro_subscriptions[u].subscription_status = "pro"

\* agentic.py:76-83
FeatureInfo(f) == IF f \in DOMAIN pro_features THEN pro_features[f] ELSE NoRow

GateResp(u, ok, kind, remaining, usedBefore) ==
    [op |-> "gate", user |-> u, ok |-> ok, kind |-> kind,
     remaining |-> remaining, used_before |-> usedBefore]

\* An off-by-one variant of the comparison: refuses the last credit.
InsufficientOffByOne(used, limit, required) == limit - used <= required

\* agentic.py:103-107: the comparison made on the values the handler read.
Insufficient(used, limit, required) == limit - used < required

\* check_and_consume_credit, first part (agentic.py:59-107): the connection
\* (refused when the store is unreachable), the three SELECTs and the
\* decision taken on what they returned.
GateRead(w, u, f) ==
    /\ Idle(w)
    /\ UNCHANGED <<now, ticks, storeVars, connVars, upgrades, trial_usage_log>>
    /\ IF ~db_up
       THEN Return(w, GateResp(u, FALSE, "unavailable", 0, NULL))
       ELSE IF GateIsPro(u)
       THEN Return(w, GateResp(u, TRUE, "pro", PRO_SENTINEL, NULL))
       ELSE IF FeatureInfo(f) = NoRow \/ ~FeatureInfo(f).requires_pro
       THEN Return(w, GateResp(u, TRUE, "free", PRO_SENTINEL, NULL))
       ELSE LET req == FeatureInfo(f).credits_required
                row == daily_credits[u]
            IN IF row = NoRow
               THEN Goto(w, "gate_insert",
                         [op |-> "gate", user |-> u, feature |-> f, required |-> req])
               ELSE IF Insufficient(row.credits_used, row.credits_limit, req)
               THEN Return(w, GateResp(u, FALSE, "insufficient",
                                       row.credits_limit - row.credits_used,
                                       row.credits_used))
               ELSE Goto(w, "gate_update",
                         [op |-> "gate", user |-> u, feature |-> f, required |-> req,
                          used |-> row.credits_used, limit |-> row.credits_limit])

\* agentic.py:92-99: INSERT of today's row and commit.  daily_credits has
\* UNIQUE(user_id, credits_date) (setup_database.py:57): when another process
\* committed the row in between, the INSERT raises and the handler returns
\* through its except clause (agentic.py:127-129), as it does when the store
\* has become unreachable.
GateInsert(w) ==
    /\ pc[w] = "gate_insert"
    /\ UNCHANGED <<now, ticks, credit_usage_logs, pro_subscriptions, user_subscriptions,
                   payment_qr_codes, payment_transactions, sessionVars, connVars, upgrades, trial_usage_log>>
    /\ LET l == local[w] IN
       IF ~db_up \/ daily_credits[l.user] # NoRow
       THEN /\ UNCHANGED daily_credits
            /\ Return(w, GateResp(l.user, FALSE, "error", 0, NULL))
       ELSE /\ daily_credits' = [daily_credits EXCEPT ![l.user] =
                   [credits_used |-> 0, credits_limit |-> DEFAULT_CREDITS_LIMIT]]
            /\ IF Insufficient(0, DEFAULT_CREDITS_LIMIT, l.required)
               THEN Return(w, GateResp(l.user, FALSE, "insufficient",
                                       DEFAULT_CREDITS_LIMIT, 0))
               ELSE Goto(w, "gate_update",
                         [l EXCEPT !.op = "gate"] @@
                         [used |-> 0, limit |-> DEFAULT_CREDITS_LIMIT])

\* agentic.py:110-114: UPDATE ... SET credits_used = credits_used + required,
\* evaluated on the row as committed when the statement runs.
DebitRow(row, required) == [row EXCEPT !.credits_used = row.credits_used + required]

\* agentic.py:109-129: UPDATE, usage log, commit, return; the except clause
\* when the store has become unreachable.
GateUpdate(w) ==
    /\ pc[w] = "gate_update"
    /\ UNCHANGED <<now, ticks, pro_subscriptions, user_subscriptions,
                   payment_qr_codes, payment_transactions, sessionVars, connVars, upgrades, trial_usage_log>>
    /\ LET l == local[w] IN
       IF ~db_up
       THEN /\ UNCHANGED <<daily_credits, credit_usage_logs>>
            /\ Return(w, GateResp(l.user, FALSE, "error", 0, NULL))
       ELSE /\ daily_credits' = [daily_credits EXCEPT ![l.user] = DebitRow(@, l.required)]
            /\ credit_usage_logs' = credit_usage_logs \cup
                  {[user_id |-> l.user, feature_name |-> l.feature,
                    credits_consumed |-> l.required]}
            /\ Return(w, GateResp(l.user, TRUE, "consumed",
                                  (l.limit - l.used) - l.required, l.used))

\* The SQL function consume_credit (deploy_database_functions.py:94-141),
\* evaluated on the committed rows: what it returns and the row of
\* (user, today) as its transaction leaves it.
ConsumeCreditFn(u) ==
    LET dc == daily_credits[u]
        ps == pro_subscriptions[u]
        found == dc # NoRow
        current_credits == IF found THEN dc.credits_limit - dc.credits_used
                           ELSE DEFAULT_CREDITS_LIMIT
        is_pro == IF found
                  THEN ps # NoRow /\ ps.subscription_status = "pro"
                  ELSE FALSE
        row == IF found THEN dc
               ELSE [credits_used |-> 0, credits_limit |-> DEFAULT_CREDITS_LIMIT]
    IN IF is_pro
       THEN [success |-> TRUE, credits_remaining |-> current_credits,
             kind |-> "pro", row |-> row]
       ELSE IF current_credits <= 0
       THEN [success |-> FALSE, credits_remaining |-> current_credits,
             kind |-> "insufficient", row |-> row]
       ELSE [success |-> TRUE, credits_remaining |-> current_credits - 1,
             kind |-> "consumed", row |-> DebitRow(row, 1)]

\* POST /credits/consume (credit_system.py:232-258): runs the SQL function
\* and returns its row; the connection is closed without commit, so the
\* function's INSERT/UPDATE never reach the committed store.
consume_credit(w, u, f) ==
    /\ Idle(w)
    /\ UNCHANGED <<now, ticks, storeVars, connVars, upgrades, trial_usage_log>>
    /\ LET r == ConsumeCreditFn(u) IN
       Return(w, [op |-> "consume_credit", user |-> u, feature |-> f, ok |-> r.success,
                  kind |-> r.kind, remaining |-> r.credits_remaining,
                  used_before |-> IF daily_credits[u] = NoRow THEN 0
                                  ELSE daily_credits[u].credits_used,
                  used_txn |-> r.row.credits_used])

\* ------------------------------------------------- pro_subscriptions writers

\* The SQL function upgrade_to_pro (deploy_database_functions.py:207-243):
\* upsert of the pro_subscriptions row ('1 month' counted as 30 days).
UpgradeToProRow(payment) ==
    [subscription_status |-> "pro", subscription_tier |-> "pro_monthly",
     subscribed_at |-> now,
     expires_at |-> now + MONTHLY_DAYS * MINUTES_PER_DAY,
     payment_id |-> payment]

\* give_pro_access.py:30-58: upgrade_to_pro for the looked-up user, committed.
give_pro_access ==
    /\ pro_subscriptions' =
          [pro_subscriptions EXCEPT ![GrantedUser] = UpgradeToProRow("admin_granted")]
    /\ resp' = NoResp
    /\ UNCHANGED <<now, ticks, daily_credits, credit_usage_logs, user_subscriptions,
                   payment_qr_codes, payment_transactions, sessionVars, connVars, pc, local, upgrades, trial_usage_log>>

\* ------------------------------------------------------ subscription manager

FreeSubscription ==
    [status |-> "free", tier |-> "free", subscription_start_date |-> NULL,
     subscription_end_date |-> NULL, payment_id |-> NULL]

\* get_user_subscription (agentic.py:2165-2211): the stored row, or the
\* free default.
SubscriptionOf(us, u) == IF us[u] # NoRow THEN us[u] ELSE FreeSubscription

\* create_free_subscription (agentic.py:2213-2238), reached from
\* get_user_subscription when the user has no row: INSERT .. ON CONFLICT DO
\* NOTHING, commit.
EnsureSubscription(us, u) ==
    IF us[u] = NoRow THEN [us EXCEPT ![u] = FreeSubscription] ELSE us

\* has_pro_access (agentic.py:2385-2401) on a subscription record.
IsActive(sub) ==
    /\ sub.status = "pro"
    /\ (sub.subscription_end_date = NULL \/ sub.subscription_end_date > now)

HasProAccess(u) == IsActive(SubscriptionOf(user_subscriptions, u))

\* _calculate_end_date (agentic.py:2286-2296)
CalculateEndDate(tier) ==
    now + MINUTES_PER_DAY *
          (CASE tier = "pro_monthly" -> MONTHLY_DAYS
             [] tier = "pro_yearly" -> YEARLY_DAYS
             [] tier = "pro_lifetime" -> LIFETIME_DAYS
             [] OTHER -> MONTHLY_DAYS)

\* upgrade_subscription (agentic.py:2264-2280): an UPDATE of the user's row
\* (no row, nothing updated), commit, then get_user_subscription.
UpgradedRow(row, tier, payment) ==
    [row EXCEPT !.status = "pro", !.tier = tier,
                !.subscription_start_date = now,
                !.subscription_end_date = CalculateEndDate(tier),
                !.payment_id = payment]

UpgradeSubscription(us, u, tier, payment) ==
    EnsureSubscription(
        IF us[u] # NoRow THEN [us EXCEPT ![u] = UpgradedRow(@, tier, payment)] ELSE us,
        u)

\* _ensure_db_connection (agentic.py:2075-2107): the manager holds a
\* connection afterwards exactly when the store is reachable.
EnsureDbConnection(w) == [db_connection EXCEPT ![w] = db_up]

\* GET /subscription/{user_id} (agentic.py:3664-3684).  With the store
\* unreachable get_user_subscription answers the free default through its
\* except clause (agentic.py:2205-2211) and has_pro_access answers False.
get_subscription_status(w, u) ==
    /\ Idle(w)
    /\ db_connection' = EnsureDbConnection(w)
    /\ user_subscriptions' =
          IF db_up THEN EnsureSubscription(user_subscriptions, u) ELSE user_subscriptions
    /\ UNCHANGED <<now, ticks, daily_credits, credit_usage_logs, pro_subscriptions,
                   payment_qr_codes, payment_transactions, sessionVars, db_up, upgrades, trial_usage_log>>
    /\ Return(w, [op |-> "subscription", user |-> u,
                  status |-> IF db_up THEN SubscriptionOf(user_subscriptions, u).status
                             ELSE FreeSubscription.status,
                  is_active |-> db_up /\ HasProAccess(u)])

\* POST /subscription/upgrade (agentic.py:3686-3721); the payment id is a
\* fresh random token, written here as 0.
\* SubscriptionManager.upgrade_subscription answers from its fallback
\* (agentic.py:2251-2262) when the manager holds no connection: a PRO record
\* that is stored nowhere; the route then lists the features, which looks the
\* subscription up (agentic.py:3703, 2406).  With a connection to a store that has become
\* unreachable the UPDATE raises and the route answers 500.
upgrade_subscription(w, u, tier) ==
    /\ Idle(w)
    /\ UNCHANGED <<now, ticks, daily_credits, credit_usage_logs, pro_subscriptions,
                   payment_qr_codes, payment_transactions, sessionVars, db_up, upgrades, trial_usage_log>>
    /\ IF ~db_connection[w]
       THEN /\ db_connection' = EnsureDbConnection(w)
            /\ user_subscriptions' =
                  IF db_up THEN EnsureSubscription(user_subscriptions, u)
                  ELSE user_subscriptions
            /\ Return(w, [op |-> "upgrade", user |-> u, ok |-> TRUE, tier |-> tier,
                          status |-> "pro"])
       ELSE IF ~db_up
       THEN /\ UNCHANGED <<user_subscriptions, db_connection>>
            /\ Return(w, [op |-> "upgrade", user |-> u, ok |-> FALSE, tier |-> tier,
                          status |-> "error"])
       ELSE /\ user_subscriptions' = UpgradeSubscription(user_subscriptions, u, tier, 0)
            /\ UNCHANGED db_connection
            /\ Return(w, [op |-> "upgrade", user |-> u, ok |-> TRUE, tier |-> tier,
                          status |-> user_subscriptions'[u].status])

\* SubscriptionManager.cancel_subscription (agentic.py:2439-2446): an UPDATE
\* of the user's row (no row, nothing updated), commit.
CancelledRow(row) == [row EXCEPT !.status = "cancelled"]

CancelSubscription(us, u) ==
    IF us[u] # NoRow THEN [us EXCEPT ![u] = CancelledRow(@)] ELSE us

\* POST /subscription/cancel/{user_id} (agentic.py:3723-3739)
cancel_subscription(w, u) ==
    /\ Idle(w)
    /\ user_subscriptions' = CancelSubscription(user_subscriptions, u)
    /\ UNCHANGED <<now, ticks, daily_credits, credit_usage_logs, pro_subscriptions,
                   payment_qr_codes, payment_transactions, sessionVars, connVars, upgrades, trial_usage_log>>
    /\ Return(w, [op |-> "cancel", user |-> u, ok |-> TRUE])

\* check_expired_subscriptions, the SELECT (agentic.py:2466-2472).
ExpiredUsers ==
    {u \in Users : /\ user_subscriptions[u] # NoRow
                   /\ user_subscriptions[u].status = "pro"
                   /\ user_subscriptions[u].subscription_end_date # NULL
                   /\ user_subscriptions[u].subscription_end_date < now}

SweepRead(w) ==
    /\ Idle(w)
    /\ UNCHANGED <<now, ticks, storeVars, connVars, upgrades, trial_usage_log>>
    /\ IF ExpiredUsers = {}
       THEN Return(w, [op |-> "sweep", expired_users |-> {}, transitioned |-> {}])
       ELSE Goto(w, "sweep_update", [op |-> "sweep", expired_users |-> ExpiredUsers])

\* check_expired_subscriptions, the UPDATE (agentic.py:2475-2485):
\* SET status = 'expired' WHERE user_id = ANY(expired_users), commit.
MarkExpired(us, expired) ==
    [u \in Users |-> IF u \in expired /\ us[u] # NoRow
                     THEN [us[u] EXCEPT !.status = "expired"]
                     ELSE us[u]]

SweepUpdate(w) ==
    /\ pc[w] = "sweep_update"
    /\ user_subscriptions' = MarkExpired(user_subscriptions, local[w].expired_users)
    /\ UNCHANGED <<now, ticks, daily_credits, credit_usage_logs, pro_subscriptions,
                   payment_qr_codes, payment_transactions, sessionVars, connVars, upgrades, trial_usage_log>>
    /\ Return(w, [op |-> "sweep", expired_users |-> local[w].expired_users,
                  transitioned |-> {u \in Users :
                      user_subscriptions[u] # user_subscriptions'[u]}])

\* ------------------------------------------------------------- QR payments

UnusedPayIds == {q \in PayIds : payment_qr_codes[q] = NoRow}

\* The INSERT of create_qr_payment (agentic.py:2607-2621 and
\* credit_system.py:828-849): a fresh payment id (qr_code is "PAY_" followed
\* by the payment id, so one key stands for both), status pending,
\* expires_at 30 minutes from now.
NewPaymentRow(u, tier, amount) ==
    [user_id |-> u, tier |-> tier, amount |-> amount, status |-> "pending",
     created_at |-> now, expires_at |-> now + QR_VALIDITY_MINUTES]

\* POST /agentic/payment/qr/create (agentic.py:4313-4345)
AgenticPrice(tier) == 99

\* A price list with one price for every tier.
FlatPrice(tier) == 99

\* POST /api/payment/qr/create (credit_system.py:1048-1090): the pricing
\* dictionary; a tier it does not list has no price and is always refused.
EndpointPrice(tier) ==
    CASE tier = "pro_monthly" -> 99
      [] tier = "pro_yearly" -> 999
      [] OTHER -> NULL

Amounts == {99, 999}

CreatePayment(w, u, tier, amount, expected) ==
    /\ Idle(w)
    /\ UNCHANGED <<now, ticks, daily_credits, credit_usage_logs, pro_subscriptions,
                   user_subscriptions, payment_transactions, sessionVars, connVars, upgrades, trial_usage_log>>
    /\ IF amount # expected
       THEN /\ UNCHANGED payment_qr_codes
            /\ Return(w, [op |-> "create_qr", ok |-> FALSE, code |-> 400,
                          tier |-> tier, amount |-> amount])
       ELSE \E q \in UnusedPayIds :
            /\ \A r \in UnusedPayIds : q <= r
            /\ payment_qr_codes' =
                  [payment_qr_codes EXCEPT ![q] = NewPaymentRow(u, tier, amount)]
            /\ Return(w, [op |-> "create_qr", ok |-> TRUE, code |-> 200, pay |-> q,
                          tier |-> tier, amount |-> amount])

create_qr_payment(w, u, tier, amount) ==
    CreatePayment(w, u, tier, amount, AgenticPrice(tier))

create_qr_payment_endpoint(w, u, tier, amount) ==
    CreatePayment(w, u, tier, amount, EndpointPrice(tier))

\* SELECT * FROM payment_qr_codes WHERE qr_code = %s AND user_id = %s AND
\* status = 'pending' (agentic.py:2652-2657, credit_system.py:918-923,
\* 1348-1353, 1444-1449)
PendingFor(q, u) ==
    /\ payment_qr_codes[q] # NoRow
    /\ payment_qr_codes[q].user_id = u
    /\ payment_qr_codes[q].status = "pending"

\* the expiry test of the verification handlers (agentic.py:2663)
PaymentExpired(row) == row.expires_at < now

\* what the caller of a verification gets, with the state of the payment when
\* the handler looked it up
VerifyResp(op, q, u, ok, code) ==
    [op |-> op, pay |-> q, user |-> u, ok |-> ok, code |-> code,
     was_completed |-> /\ payment_qr_codes[q] # NoRow
                       /\ payment_qr_codes[q].user_id = u
                       /\ payment_qr_codes[q].status = "completed"]

\* SubscriptionManager.verify_qr_payment behind POST /agentic/payment/qr/verify,
\* the lookup (agentic.py:2649-2664)
VerifyRead(w, q, u) ==
    /\ Idle(w)
    /\ UNCHANGED <<now, ticks, storeVars, connVars, upgrades, trial_usage_log>>
    /\ IF ~PendingFor(q, u)
       THEN Return(w, VerifyResp("verify_qr", q, u, FALSE, 404))
       ELSE IF PaymentExpired(payment_qr_codes[q])
       THEN Return(w, VerifyResp("verify_qr", q, u, FALSE, 400))
       ELSE Goto(w, "verify_write",
                 [op |-> "verify_qr", pay |-> q, user |-> u,
                  tier |-> payment_qr_codes[q].tier])

\* UPDATE payment_qr_codes SET status = 'completed' WHERE qr_code = %s
\* (agentic.py:2672-2676)
CompletePayment(row) == [row EXCEPT !.status = "completed"]

\* SubscriptionManager.verify_qr_payment, the writes (agentic.py:2670-2696):
\* the payment UPDATE and upgrade_subscription run on one connection and are
\* committed by upgrade_subscription's commit.
VerifyWrite(w) ==
    /\ pc[w] = "verify_write"
    /\ LET l == local[w] IN
       /\ payment_qr_codes' = [payment_qr_codes EXCEPT ![l.pay] = CompletePayment(@)]
       /\ user_subscriptions' =
             UpgradeSubscription(user_subscriptions, l.user, l.tier, l.pay)
       /\ upgrades' = [upgrades EXCEPT ![l.pay] = @ + 1]
       /\ Return(w, [op |-> "verify_qr", pay |-> l.pay, user |-> l.user,
                     ok |-> TRUE, code |-> 200, was_completed |-> FALSE])
    /\ UNCHANGED <<now, ticks, daily_credits, credit_usage_logs, pro_subscriptions,
                   payment_transactions, sessionVars, connVars, trial_usage_log>>

\* The verification handlers of credit_system.py: verify_qr_payment (909-980),
\* verify_qr_payment_manual (1332-1426), verify_qr_payment_automatic
\* (1428-1538).  Their connection (credit_system.py:142-151) hands out plain
\* cursors, whose rows are tuples; payment_record['expires_at'] on the row found
\* raises TypeError, which each handler's except clause turns into an error
\* response before any UPDATE is sent.
CsVerifyKinds == {"qr", "manual", "automatic"}

credit_system_verify(w, kind, q, u) ==
    /\ Idle(w)
    /\ UNCHANGED <<now, ticks, storeVars, connVars, upgrades, trial_usage_log>>
    /\ IF ~PendingFor(q, u)
       THEN Return(w, VerifyResp("cs_verify_" \o kind, q, u, FALSE, 200))
       ELSE Return(w, VerifyResp("cs_verify_" \o kind, q, u, FALSE, 500))

\* _process_successful_payment (credit_system.py:1253-1330), reached from the
\* provider webhooks: the SELECT matches a pending payment by payment id OR by
\* amount, newest first; payment_record['user_id'] on the tuple found raises
\* TypeError and the handler answers {"status": "error"} without writing.
WebhookMatches(txn, amount) ==
    {q \in PayIds : /\ payment_qr_codes[q] # NoRow
                    /\ payment_qr_codes[q].status = "pending"
                    /\ (q = txn \/ payment_qr_codes[q].amount = amount)}

\* ORDER BY created_at DESC LIMIT 1: the rows fetchone may return.
NewestMatches(txn, amount) ==
    {q \in WebhookMatches(txn, amount) :
        \A r \in WebhookMatches(txn, amount) :
            payment_qr_codes[r].created_at <= payment_qr_codes[q].created_at}

process_successful_payment(w, txn, amount) ==
    /\ Idle(w)
    /\ UNCHANGED <<now, ticks, storeVars, connVars, upgrades, trial_usage_log>>
    /\ Return(w, [op |-> "webhook", pay |-> txn, ok |-> FALSE,
                  payment_record |-> NewestMatches(txn, amount),
                  status |-> IF WebhookMatches(txn, amount) = {}
                             THEN "ignored" ELSE "error",
                  was_completed |-> /\ payment_qr_codes[txn] # NoRow
                                    /\ payment_qr_codes[txn].status = "completed"])

\* POST /payment/create (credit_system.py:307-352): create_payment_transaction
\* inserts the payment_transactions row, and the connection is closed without
\* commit: the row is never stored.
create_payment(w, u, amount) ==
    /\ Idle(w)
    /\ UNCHANGED <<now, ticks, storeVars, connVars, upgrades, trial_usage_log>>
    /\ Return(w, [op |-> "create_payment", user |-> u, ok |-> TRUE, code |-> 200])

\* POST /payment/verify (credit_system.py:354-393).  HTTPException(404) is
\* raised inside the try block and caught by `except Exception`, which answers
\* 500.  upgrade_to_pro runs in a transaction that is never committed.
verify_payment(w, q) ==
    /\ Idle(w)
    /\ UNCHANGED <<now, ticks, storeVars, connVars, upgrades, trial_usage_log>>
    /\ LET row == payment_transactions[q] IN
       IF row = NoRow
       THEN Return(w, [op |-> "verify_payment", pay |-> q, ok |-> FALSE, code |-> 500,
                       was_completed |-> FALSE])
       ELSE Return(w, [op |-> "verify_payment", pay |-> q, ok |-> TRUE, code |-> 200,
                       user |-> row.user_id,
                       was_completed |-> row.payment_status = "completed"])

\* ---------------------------------------------------------- specifications

\* Credit ledger and gate, handlers of different processes interleaved.
NextCredit ==
    \/ \E w \in Workers, u \in Users, f \in GateFeatures : GateRead(w, u, f)
    \/ \E w \in Workers : GateInsert(w)
    \/ \E w \in Workers : GateUpdate(w)
    \/ \E w \in Workers, u \in Users, f \in RequestFeatures : consume_credit(w, u, f)
    \/ give_pro_access

SpecCredit == Init /\ [][NextCredit]_vars

\* Credit ledger, gate and subscription upgrade, run one handler at a time
\* by a single server process.
NextLedger ==
    \E w \in SoloWorkers :
        \/ \E u \in Users, f \in GateFeatures : GateRead(w, u, f)
        \/ GateInsert(w)
        \/ GateUpdate(w)
        \/ \E u \in Users, f \in RequestFeatures : consume_credit(w, u, f)
        \/ \E u \in Users, t \in PaidTiers : upgrade_subscription(w, u, t)
        \/ Idle(w) /\ give_pro_access

SpecLedger == Init /\ [][NextLedger]_vars

\* QR payments: creation, the verification entry points that find a QR
\* payment, and the clock; handlers of different processes interleaved.
NextPay ==
    \/ \E w \in Workers, u \in Users, t \in PaidTiers, a \in Amounts :
          create_qr_payment(w, u, t, a)
    \/ \E w \in Workers, q \in PayIds, u \in Users : VerifyRead(w, q, u)
    \/ \E w \in Workers : VerifyWrite(w)
    \/ \E w \in Workers, k \in CsVerifyKinds, q \in PayIds, u \in Users :
          credit_system_verify(w, k, q, u)
    \/ \E w \in Workers, q \in PayIds, a \in Amounts :
          process_successful_payment(w, q, a)
    \/ \E d \in PayTickSteps : Tick(d)

SpecPay == Init /\ [][NextPay]_vars

\* Every payment handler, run one at a time by a single server process.
NextPaySeq ==
    \E w \in SoloWorkers :
        \/ \E u \in Users, t \in PaidTiers, a \in Amounts : create_qr_payment(w, u, t, a)
        \/ \E u \in Users, t \in PaidTiers, a \in Amounts :
              create_qr_payment_endpoint(w, u, t, a)
        \/ \E q \in PayIds, u \in Users : VerifyRead(w, q, u)
        \/ VerifyWrite(w)
        \/ \E k \in CsVerifyKinds, q \in PayIds, u \in Users :
              credit_system_verify(w, k, q, u)
        \/ \E q \in PayIds, a \in Amounts : process_successful_payment(w, q, a)
        \/ \E u \in Users, a \in Amounts : create_payment(w, u, a)
        \/ \E q \in PayIds : verify_payment(w, q)
        \/ \E u \in Users : get_subscription_status(w, u)
        \/ \E d \in PayTickSteps : Idle(w) /\ Tick(d)

SpecPaySeq == Init /\ [][NextPaySeq]_vars

\* Subscription upgrade, expiry sweep and the clock, handlers of different
\* processes interleaved.
NextSweep ==
    \/ \E w \in Workers, u \in Users : get_subscription_status(w, u)
    \/ \E w \in Workers, u \in Users, t \in PaidTiers : upgrade_subscription(w, u, t)
    \/ \E w \in Workers : SweepRead(w)
    \/ \E w \in Workers : SweepUpdate(w)
    \/ \E d \in SubTickSteps : Tick(d)

SpecSweep == Init /\ [][NextSweep]_vars

\* The same handlers and the admin grant, run one at a time by a single
\* server process.
NextSweepSeq ==
    \E w \in SoloWorkers :
        \/ \E u \in Users : get_subscription_status(w, u)
        \/ \E u \in Users, t \in PaidTiers : upgrade_subscription(w, u, t)
        \/ SweepRead(w)
        \/ SweepUpdate(w)
        \/ Idle(w) /\ give_pro_access
        \/ \E d \in SubTickSteps : Idle(w) /\ Tick(d)

SpecSweepSeq == Init /\ [][NextSweepSeq]_vars

\* Subscription routes and the admin grant, run one at a time by a single
\* server process.
NextSub ==
    \E w \in SoloWorkers :
        \/ \E u \in Users : get_subscription_status(w, u)
        \/ \E u \in Users, t \in AllTiers : upgrade_subscription(w, u, t)
        \/ \E u \in Users : cancel_subscription(w, u)
        \/ Idle(w) /\ give_pro_access
        \/ \E d \in SubTickSteps : Idle(w) /\ Tick(d)

SpecSub == Init /\ [][NextSub]_vars

\* ---------------------------------------------------------- study sessions

MessageRoles == {"system", "user", "assistant"}
ConversationRoles == {"user", "assistant"}

\* Message contents a client may send.
Texts == {"a", "b"}

ConversationMessage(role, content) == [role |-> role, content |-> content]

SYSTEM_PROMPT == ConversationMessage("system", "prompt")
WELCOME_MESSAGE == ConversationMessage("assistant", "welcome")

\* Messages add_message is called with outside start_study_session.
ConversationMessages == {ConversationMessage(r, t) : r \in ConversationRoles, t \in Texts}

\* Every message add_message accepts (role: MessageRole).
AnyMessages == ConversationMessages \cup {SYSTEM_PROMPT}

\* timedelta(hours=MAX_SESSION_DURATION), in minutes
SESSION_LIFETIME == MAX_SESSION_DURATION * 60

\* Clock advances around the session lifetime: exactly 24 h, and one minute.
SessionTickSteps == {SESSION_LIFETIME, 1}

\* uuid4 never returns an identifier twice.
UnusedSessionIds == {s \in SessionIds : study_sessions[s] = NoRow /\ s \notin ended}

NewSessionRow(u) == [user_id |-> u, messages |-> <<>>, last_activity |-> now]

\* SessionManager.create_session: INSERT with an empty log, commit.
create_session(w, u) ==
    /\ Idle(w)
    /\ \E s \in UnusedSessionIds :
          /\ study_sessions' = [study_sessions EXCEPT ![s] = NewSessionRow(u)]
          /\ Return(w, [op |-> "create_session", session |-> s])
    /\ UNCHANGED <<now, ticks, ledgerVars, upgrades, trial_usage_log, ended, connVars>>

\* SessionManager.get_session: the row, or None.
get_session(w, s) ==
    /\ Idle(w)
    /\ Return(w, [op |-> "get_session", session |-> s,
                  found |-> study_sessions[s] # NoRow])
    /\ UNCHANGED <<now, ticks, storeVars, upgrades, trial_usage_log, connVars>>

\* UPDATE study_sessions SET last_activity = now WHERE session_id = s.
TouchRow(row) == IF row = NoRow THEN NoRow ELSE [row EXCEPT !.last_activity = now]

\* SessionManager.update_session_activity
update_session_activity(w, s) ==
    /\ Idle(w)
    /\ study_sessions' = [study_sessions EXCEPT ![s] = TouchRow(@)]
    /\ Return(w, [op |-> "touch", session |-> s])
    /\ UNCHANGED <<now, ticks, ledgerVars, upgrades, trial_usage_log, ended, connVars>>

\* A variant that puts the new message in front of the log.
LocalPrepend(messages, m) == <<m>> \o messages

\* session.messages.append(message)
LocalAppend(messages, m) == Append(messages, m)

\* add_message, first part: get_session, and the append to the local copy.
AppendRead(w, s, m) ==
    /\ Idle(w)
    /\ UNCHANGED <<now, ticks, storeVars, upgrades, trial_usage_log, connVars>>
    /\ IF study_sessions[s] = NoRow
       THEN Return(w, [op |-> "add_message", session |-> s, message |-> m,
                       found |-> FALSE])
       ELSE /\ Len(study_sessions[s].messages) < MaxLog
            /\ Goto(w, "append_write",
                    [op |-> "add_message", session |-> s, message |-> m,
                     messages |-> LocalAppend(study_sessions[s].messages, m)])

\* A variant that writes the row back even when it has been deleted.
WriteLogUpsert(row, messages) ==
    [user_id |-> "u1", messages |-> messages, last_activity |-> now]

\* UPDATE study_sessions SET messages = <whole log>, last_activity = now
\* WHERE session_id = s: changes the row when there is one, never inserts.
WriteLog(row, messages) ==
    IF row = NoRow THEN NoRow
    ELSE [row EXCEPT !.messages = messages, !.last_activity = now]

\* add_message, second part: the UPDATE and its commit.
AppendWrite(w) ==
    /\ pc[w] = "append_write"
    /\ LET l == local[w] IN
       /\ study_sessions' = [study_sessions EXCEPT ![l.session] = WriteLog(@, l.messages)]
       /\ Return(w, [op |-> "add_message", session |-> l.session,
                     message |-> l.message, found |-> TRUE])
    /\ UNCHANGED <<now, ticks, ledgerVars, upgrades, trial_usage_log, ended, connVars>>

\* get_conversation_context: the slice of the last max_messages entries,
\* then the filter on the role.
GetContext(messages, max_messages) ==
    LET n == Len(messages)
        recent == IF n > max_messages
                  THEN SubSeq(messages, n - max_messages + 1, n)
                  ELSE messages
    IN SelectSeq(recent, LAMBDA m : m.role \in ConversationRoles)

get_conversation_context(w, s, k) ==
    /\ Idle(w)
    /\ Return(w, [op |-> "get_context", session |-> s, max_messages |-> k,
                  messages |-> IF study_sessions[s] = NoRow THEN <<>>
                               ELSE study_sessions[s].messages,
                  context |-> IF study_sessions[s] = NoRow THEN <<>>
                              ELSE GetContext(study_sessions[s].messages, k)])
    /\ UNCHANGED <<now, ticks, storeVars, upgrades, trial_usage_log, connVars>>

\* except Exception around a handler body: every HTTPException raised inside
\* it, whatever its status, is answered as 500.
CaughtByHandler(status) == 500

\* DELETE /session/{session_id}: lookup, DELETE, commit.
end_session(w, s) ==
    /\ Idle(w)
    /\ UNCHANGED <<now, ticks, ledgerVars, upgrades, trial_usage_log, connVars>>
    /\ IF study_sessions[s] = NoRow
       THEN /\ UNCHANGED sessionVars
            /\ Return(w, [op |-> "end_session", session |-> s, raised |-> 404,
                          status |-> CaughtByHandler(404)])
       ELSE /\ study_sessions' = [study_sessions EXCEPT ![s] = NoRow]
            /\ ended' = ended \cup {s}
            /\ Return(w, [op |-> "end_session", session |-> s, raised |-> 0,
                          status |-> 200])

\* cleanup_expired_sessions: the rows the SELECT returns.
ExpiredSessions ==
    {s \in SessionIds : /\ study_sessions[s] # NoRow
                        /\ study_sessions[s].last_activity < now - SESSION_LIFETIME}

\* cleanup_expired_sessions, first statement.
SessionSweepRead(w) ==
    /\ Idle(w)
    /\ UNCHANGED <<now, ticks, storeVars, upgrades, trial_usage_log, connVars>>
    /\ IF ExpiredSessions = {}
       THEN Return(w, [op |-> "session_sweep", deleted |-> {}])
       ELSE Goto(w, "session_sweep_delete",
                 [op |-> "session_sweep", expired_sessions |-> ExpiredSessions])

\* cleanup_expired_sessions, second statement: DELETE ... WHERE session_id =
\* ANY(expired_sessions), and the commit.
SessionSweepDelete(w) ==
    /\ pc[w] = "session_sweep_delete"
    /\ LET gone == {s \in local[w].expired_sessions : study_sessions[s] # NoRow} IN
       /\ study_sessions' = [s \in SessionIds |->
                                IF s \in gone THEN NoRow ELSE study_sessions[s]]
       /\ ended' = ended \cup gone
       /\ Return(w, [op |-> "session_sweep", deleted |-> gone])
    /\ UNCHANGED <<now, ticks, ledgerVars, upgrades, trial_usage_log, connVars>>

\* ---------------------------------------------------------- gated handlers

\* check_and_consume_credit run to completion by one process with no other
\* process in between (GateRead, GateInsert, GateUpdate in a row): what it
\* answers and how many credits it debits.
GateOutcome(u, f) ==
    IF GateIsPro(u)
    THEN [ok |-> TRUE, kind |-> "pro", remaining |-> PRO_SENTINEL, debit |-> 0]
    ELSE IF FeatureInfo(f) = NoRow \/ ~FeatureInfo(f).requires_pro
    THEN [ok |-> TRUE, kind |-> "free", remaining |-> PRO_SENTINEL, debit |-> 0]
    ELSE LET req == FeatureInfo(f).credits_required
             row == IF daily_credits[u] = NoRow
                    THEN [credits_used |-> 0, credits_limit |-> DEFAULT_CREDITS_LIMIT]
                    ELSE daily_credits[u]
             left == row.credits_limit - row.credits_used
         IN IF Insufficient(row.credits_used, row.credits_limit, req)
            THEN [ok |-> FALSE, kind |-> "insufficient", remaining |-> left, debit |-> 0]
            ELSE [ok |-> TRUE, kind |-> "consumed", remaining |-> left - req, debit |-> req]

\* The rows check_and_consume_credit leaves behind for that outcome.
GateCommit(u, f, g) ==
    /\ daily_credits' =
          IF g.kind \in {"pro", "free"} THEN daily_credits
          ELSE [daily_credits EXCEPT ![u] =
                   DebitRow(IF @ = NoRow
                            THEN [credits_used |-> 0,
                                  credits_limit |-> DEFAULT_CREDITS_LIMIT]
                            ELSE @, g.debit)]
    /\ credit_usage_logs' =
          IF g.kind = "consumed"
          THEN credit_usage_logs \cup
                  {[user_id |-> u, feature_name |-> f, credits_consumed |-> g.debit]}
          ELSE credit_usage_logs

\* A caller that never takes the gate's answer as a refusal.
GateDeniedNever(g) == FALSE

\* "if not can_use:" in chat_message, problem_solve and the wrapper of
\* require_pro_access.
GateDenied(g) == ~g.ok

HandlerResp(op, s, status, raised, g, llm) ==
    [op |-> op, session |-> s, status |-> status, raised |-> raised,
     gate |-> g, llm_calls |-> llm]

NoGate == [ok |-> FALSE, kind |-> "none", remaining |-> 0, debit |-> 0]

\* POST /session/start: create_session, then the system prompt and the
\* welcome message, each through add_message.
start_study_session(w, u) ==
    /\ Idle(w)
    /\ \E s \in UnusedSessionIds :
          /\ study_sessions' = [study_sessions EXCEPT ![s] =
                [NewSessionRow(u) EXCEPT !.messages = <<SYSTEM_PROMPT, WELCOME_MESSAGE>>]]
          /\ Return(w, [op |-> "start_session", session |-> s])
    /\ UNCHANGED <<now, ticks, ledgerVars, upgrades, trial_usage_log, ended, connVars>>

\* The log of a session is followed up to MaxLog entries: a request that
\* might store a message and its reply is taken while there is room for both.
HasRoom(s) ==
    IF study_sessions[s] = NoRow THEN TRUE
    ELSE Len(study_sessions[s].messages) + 2 <= MaxLog

\* chat_message / problem_solve up to the decision on the gate's answer:
\* session lookup (404), activity update, check_and_consume_credit (402).
\* Both raises happen inside the handler's try block.
GatedBegin(w, op, f, s) ==
    /\ Idle(w)
    /\ HasRoom(s)
    /\ UNCHANGED <<now, ticks, pro_subscriptions, user_subscriptions,
                   payment_qr_codes, payment_transactions, upgrades, trial_usage_log, ended, connVars>>
    /\ IF study_sessions[s] = NoRow
       THEN /\ UNCHANGED <<daily_credits, credit_usage_logs, study_sessions>>
            /\ Return(w, HandlerResp(op, s, CaughtByHandler(404), 404, NoGate, 0))
       ELSE LET u == study_sessions[s].user_id
                g == GateOutcome(u, f)
            IN /\ study_sessions' = [study_sessions EXCEPT ![s] = TouchRow(@)]
               /\ GateCommit(u, f, g)
               /\ IF GateDenied(g)
                  THEN Return(w, HandlerResp(op, s, CaughtByHandler(402), 402, g, 0))
                  ELSE Goto(w, "llm", [op |-> op, session |-> s, gate |-> g,
                                       llm_calls |-> 0])

chat_message(w, s) == GatedBegin(w, "chat", "pro_ai_chat", s)

problem_solve(w, s) == GatedBegin(w, "problem_solve", "problem_generator", s)

\* The call of AIContentGenerator.generate_response: it answers, or raises
\* (agentic.py:874) and the handler's except clause answers 500.
CallLLM(w, answered) ==
    /\ pc[w] = "llm"
    /\ UNCHANGED <<now, ticks, storeVars, upgrades, trial_usage_log, connVars>>
    /\ LET l == [local[w] EXCEPT !.llm_calls = @ + 1] IN
       IF answered
       THEN Goto(w, "store_reply", l)
       ELSE Return(w, HandlerResp(l.op, l.session, 500, 500, l.gate, l.llm_calls))

\* add_message applied by a handler with no other process in between.
AddMessage(row, m) ==
    IF row = NoRow THEN row ELSE WriteLog(row, LocalAppend(row.messages, m))

\* The messages a handler stores once the model has answered: the user's
\* message and the reply (chat_message), the reply only (the others).
StoredMessages(op, t) ==
    IF op = "chat"
    THEN <<ConversationMessage("user", t), ConversationMessage("assistant", "reply")>>
    ELSE <<ConversationMessage("assistant", "reply")>>

RECURSIVE AddMessages(_, _)
AddMessages(row, ms) ==
    IF ms = <<>> THEN row ELSE AddMessages(AddMessage(row, Head(ms)), Tail(ms))

\* The end of a gated handler: add_message calls and the 200 answer.
StoreReply(w, t) ==
    /\ pc[w] = "store_reply"
    /\ LET l == local[w] IN
       /\ study_sessions' = [study_sessions EXCEPT ![l.session] =
                                AddMessages(@, StoredMessages(l.op, t))]
       /\ Return(w, HandlerResp(l.op, l.session, 200, 0, l.gate, l.llm_calls))
    /\ UNCHANGED <<now, ticks, ledgerVars, upgrades, trial_usage_log, ended, connVars>>

\* The wrapper of require_pro_access around generate_quiz: it looks for the
\* request object among its positional arguments (400 when there is none),
\* runs the gate, refuses with 403 or calls the handler.
generate_quiz(w, s, u, positional) ==
    /\ Idle(w)
    /\ HasRoom(s)
    /\ UNCHANGED <<now, ticks, pro_subscriptions, user_subscriptions,
                   payment_qr_codes, payment_transactions, upgrades, trial_usage_log, ended, connVars>>
    /\ IF ~positional
       THEN /\ UNCHANGED <<daily_credits, credit_usage_logs, study_sessions>>
            /\ Return(w, HandlerResp("quiz", s, 400, 400, NoGate, 0))
       ELSE LET g == GateOutcome(u, "problem_generator") IN
            /\ GateCommit(u, "problem_generator", g)
            /\ IF GateDenied(g)
               THEN /\ UNCHANGED study_sessions
                    /\ Return(w, HandlerResp("quiz", s, 403, 403, g, 0))
               ELSE IF study_sessions[s] = NoRow
               THEN /\ UNCHANGED study_sessions
                    /\ Return(w, HandlerResp("quiz", s, CaughtByHandler(404), 404, g, 0))
               ELSE /\ study_sessions' = [study_sessions EXCEPT ![s] = TouchRow(@)]
                    /\ Goto(w, "llm", [op |-> "quiz", session |-> s, gate |-> g,
                                       llm_calls |-> 0])

\* One process serving the gated handlers one request at a time.
NextChat ==
    \E w \in SoloWorkers :
        \/ \E u \in Users : start_study_session(w, u)
        \/ \E s \in SessionIds : chat_message(w, s)
        \/ \E s \in SessionIds : problem_solve(w, s)
        \/ \E s \in SessionIds, u \in Users, p \in BOOLEAN : generate_quiz(w, s, u, p)
        \/ \E a \in BOOLEAN : CallLLM(w, a)
        \/ \E t \in Texts : StoreReply(w, t)
        \/ Idle(w) /\ give_pro_access

SpecChat == Init /\ [][NextChat]_vars

\* ------------------------------------------------------------ store outage

\* The relational store stops accepting connections and queries.
StoreFails ==
    /\ db_up
    /\ db_up' = FALSE
    /\ resp' = NoResp
    /\ UNCHANGED <<now, ticks, storeVars, pc, local, upgrades, trial_usage_log, db_connection>>

StoreRecovers ==
    /\ ~db_up
    /\ db_up' = TRUE
    /\ resp' = NoResp
    /\ UNCHANGED <<now, ticks, storeVars, pc, local, upgrades, trial_usage_log, db_connection>>

\* One process serving the gate and the subscription routes while the store
\* comes and goes.
NextOutage ==
    \/ StoreFails
    \/ StoreRecovers
    \/ \E w \in SoloWorkers :
          \/ \E u \in Users, f \in GateFeatures : GateRead(w, u, f)
          \/ GateInsert(w)
          \/ GateUpdate(w)
          \/ \E u \in Users : get_subscription_status(w, u)
          \/ \E u \in Users, t \in PaidTiers : upgrade_subscription(w, u, t)

SpecOutage == Init /\ [][NextOutage]_vars

\* ------------------------------------------------- session specifications

\* One process using a session one call at a time: started by the route,
\* messages appended, the context read with the default max_messages.
NextSessionSeq ==
    \E w \in SoloWorkers :
        \/ \E u \in Users : start_study_session(w, u)
        \/ \E s \in SessionIds, m \in ConversationMessages : AppendRead(w, s, m)
        \/ AppendWrite(w)
        \/ \E s \in SessionIds : get_conversation_context(w, s, DEFAULT_MAX_MESSAGES)
        \/ \E s \in SessionIds : end_session(w, s)
        \/ \E d \in SessionTickSteps : Idle(w) /\ Tick(d)

SpecSessionSeq == Init /\ [][NextSessionSeq]_vars

\* The SessionManager used directly by one caller: any role may be appended,
\* and the context is read with any max_messages.
NextContext ==
    \E w \in SoloWorkers :
        \/ \E u \in Users : create_session(w, u)
        \/ \E s \in SessionIds, m \in AnyMessages : AppendRead(w, s, m)
        \/ AppendWrite(w)
        \/ \E s \in SessionIds, k \in 1 .. MaxLog : get_conversation_context(w, s, k)

SpecContext == Init /\ [][NextContext]_vars

\* Several server processes on the same sessions, and the hourly sweep that
\* each of them runs.
NextSession ==
    \/ \E d \in SessionTickSteps : Tick(d)
    \/ \E w \in Workers :
          \/ \E u \in Users : start_study_session(w, u)
          \/ \E s \in SessionIds, m \in ConversationMessages : AppendRead(w, s, m)
          \/ AppendWrite(w)
          \/ \E s \in SessionIds : update_session_activity(w, s)
          \/ \E s \in SessionIds : get_session(w, s)
          \/ \E s \in SessionIds : end_session(w, s)
          \/ SessionSweepRead(w)
          \/ SessionSweepDelete(w)

SpecSession == Init /\ [][NextSession]_vars

\* Several processes on sessions that are ended and reaped while calls on
\* them are running; one user, one message content.
NextReap ==
    \/ \E d \in SessionTickSteps : Tick(d)
    \/ \E w \in Workers :
          \/ start_study_session(w, GrantedUser)
          \/ \E s \in SessionIds : AppendRead(w, s, ConversationMessage("user", "a"))
          \/ AppendWrite(w)
          \/ \E s \in SessionIds : update_session_activity(w, s)
          \/ \E s \in SessionIds : get_session(w, s)
          \/ \E s \in SessionIds : end_session(w, s)
          \/ SessionSweepRead(w)
          \/ SessionSweepDelete(w)

SpecReap == Init /\ [][NextReap]_vars

\* update_session_activity seen statement by statement: the process reads
\* its clock to build the parameters of the UPDATE (agentic.py:547) ...
\* The handlers call it on a session their get_session has just found.
TouchStamp(w, s) ==
    /\ Idle(w)
    /\ study_sessions[s] # NoRow
    /\ Goto(w, "touch_write", [op |-> "touch", session |-> s, stamp |-> now])
    /\ UNCHANGED <<now, ticks, storeVars, upgrades, trial_usage_log, connVars>>

StampRow(row, stamp) == IF row = NoRow THEN NoRow ELSE [row EXCEPT !.last_activity = stamp]

\* ... and the store runs the UPDATE with that value and commits.
TouchWrite(w) ==
    /\ pc[w] = "touch_write"
    /\ study_sessions' = [study_sessions EXCEPT ![local[w].session] =
                             StampRow(@, local[w].stamp)]
    /\ Return(w, [op |-> "touch", session |-> local[w].session])
    /\ UNCHANGED <<now, ticks, ledgerVars, upgrades, trial_usage_log, ended, connVars>>

\* Several processes creating and touching sessions while time passes.
NextActivity ==
    \/ \E d \in SessionTickSteps : Tick(d)
    \/ \E w \in Workers :
          \/ \E u \in Users : start_study_session(w, u)
          \/ \E s \in SessionIds : TouchStamp(w, s)
          \/ TouchWrite(w)
          \/ \E s \in SessionIds : AppendRead(w, s, ConversationMessage("user", "a"))
          \/ AppendWrite(w)

SpecActivity == Init /\ [][NextActivity]_vars

\* ------------------------------------------------------------ credit status

\* GET /credits/status/{user_id} (credit_system.py:157-230).  With the SQL
\* function get_daily_credits deployed (deploy_database_functions.py:49-74)
\* the answer is its row: a pure SELECT with COALESCE defaults, no INSERT.
\* Without it the call raises UndefinedFunction, which the handler catches
\* to run its fallback SQL on the same connection; the failed statement has
\* aborted the transaction and no rollback is issued, so the fallback SELECT
\* raises in turn and the handler answers 500 without writing anything.
get_credit_status(w, u, deployed) ==
    /\ Idle(w)
    /\ UNCHANGED <<now, ticks, storeVars, connVars, upgrades, trial_usage_log>>
    /\ LET row == daily_credits[u]
           used == IF row = NoRow THEN 0 ELSE row.credits_used
           limit == IF row = NoRow THEN DEFAULT_CREDITS_LIMIT ELSE row.credits_limit
       IN IF deployed
          THEN Return(w, [op |-> "credit_status", user |-> u, ok |-> TRUE,
                          credits_used |-> used, credits_remaining |-> limit - used,
                          credits_limit |-> limit, is_pro_user |-> GateIsPro(u)])
          ELSE Return(w, [op |-> "credit_status", user |-> u, ok |-> FALSE,
                          credits_used |-> NULL, credits_remaining |-> NULL,
                          credits_limit |-> NULL, is_pro_user |-> FALSE])

\* One process answering status requests between gated requests.
NextStatus ==
    \E w \in SoloWorkers :
        \/ \E u \in Users, d \in BOOLEAN : get_credit_status(w, u, d)
        \/ \E u \in Users, f \in GateFeatures : GateRead(w, u, f)
        \/ GateInsert(w)
        \/ GateUpdate(w)
        \/ Idle(w) /\ give_pro_access

SpecStatus == Init /\ [][NextStatus]_vars

\* One process serving POST /api/payment/qr/create while time passes.
NextCreate ==
    \E w \in SoloWorkers :
        \/ \E u \in Users, t \in AllTiers, a \in Amounts :
              create_qr_payment_endpoint(w, u, t, a)
        \/ \E d \in PayTickSteps : Idle(w) /\ Tick(d)

SpecCreate == Init /\ [][NextCreate]_vars

\* ---------------------------------------------------------------------
\* AIContentGenerator.prepare_conversation_messages: the message list handed
\* to the chat completion API.  A content is the sequence of the pieces
\* that were concatenated into it.

\* msg.get("content", "") of a stored message
Content(c) == <<c>>

\* "\n\n"
SEPARATOR == "\n\n"

\* merged_content += "\n\n" + msg_content
Merge(merged_content, msg_content) ==
    merged_content \o <<SEPARATOR>> \o msg_content

\* Input lists of the test function and of generate_response.
MessageLists == UNION {[1 .. n -> ConversationMessages] : n \in 0 .. MaxLog}

\* The loop variables before the first message.
PrepareStart(system_prompt) ==
    [prepared_messages |-> <<ConversationMessage("system", Content(system_prompt))>>,
     current_role |-> "None",
     merged_content |-> <<>>]

\* One iteration of the for loop.
PrepareStep(st, msg) ==
    IF msg.role = "" \/ msg.content = ""
    THEN st
    ELSE IF st.current_role = "None"
    THEN IF msg.role = "user"
         THEN [st EXCEPT !.prepared_messages =
                             Append(@, ConversationMessage("user", Content(msg.content))),
                         !.current_role = "user"]
         ELSE st
    ELSE IF msg.role = st.current_role
    THEN [st EXCEPT !.merged_content = Merge(@, Content(msg.content))]
    ELSE [prepared_messages |->
              Append(IF st.merged_content # <<>>
                     THEN Append(st.prepared_messages,
                                 ConversationMessage(st.current_role, st.merged_content))
                     ELSE st.prepared_messages,
                     ConversationMessage(msg.role, Content(msg.content))),
          current_role |-> msg.role,
          merged_content |-> <<>>]

RECURSIVE PrepareLoop(_, _)
PrepareLoop(messages, st) ==
    IF messages = <<>> THEN st
    ELSE PrepareLoop(Tail(messages), PrepareStep(st, Head(messages)))

\* The flush after the loop and the returned list.
PrepareConversationMessages(messages, system_prompt) ==
    LET st == PrepareLoop(messages, PrepareStart(system_prompt))
    IN  IF st.merged_content # <<>>
        THEN Append(st.prepared_messages,
                    ConversationMessage(st.current_role, st.merged_content))
        ELSE st.prepared_messages

prepare_conversation_messages(w, messages) ==
    /\ Idle(w)
    /\ Return(w, [op |-> "prepare", messages |-> messages,
                  prepared |-> PrepareConversationMessages(messages, SYSTEM_PROMPT.content)])
    /\ UNCHANGED <<now, ticks, storeVars, upgrades, trial_usage_log, connVars>>

NextPrepare ==
    \E w \in SoloWorkers, messages \in MessageLists :
        prepare_conversation_messages(w, messages)

SpecPrepare == Init /\ [][NextPrepare]_vars

\* ---------------------------------------------------------------------
\* GET /api/payment/qr/stream/{qr_code} (credit_system.py:1579-1634)

\* max_attempts
MAX_ATTEMPTS == 360

\* get_qr_payment_status (credit_system.py:982-1045): "not_found" for a
\* code without row; for a row found, payment_record['status'] on the tuple
\* of the plain cursor raises TypeError and the except clause answers
\* status "error".
QrStatus(q) ==
    IF payment_qr_codes[q] = NoRow THEN "not_found" ELSE "error"

StopStatuses == {"completed", "expired"}

StreamEvent(q, phase, attempts) ==
    [op |-> "stream_event", pay |-> q, phase |-> phase, attempts |-> attempts,
     status |-> QrStatus(q)]

\* event_stream up to the loop: the initial status, and the return when it
\* is completed.
StreamStart(w, q) ==
    /\ Idle(w)
    /\ resp' = StreamEvent(q, "initial", 0)
    /\ IF QrStatus(q) = "completed"
       THEN UNCHANGED <<pc, local>>
       ELSE /\ pc' = [pc EXCEPT ![w] = "stream_poll"]
            /\ local' = [local EXCEPT ![w] =
                            [op |-> "stream", pay |-> q, attempts |-> 0, stop |-> FALSE]]
    /\ UNCHANGED <<now, ticks, storeVars, connVars, upgrades, trial_usage_log>>

\* One iteration of the while loop: sleep, count, read, emit, break on a
\* stop status.
StreamPoll(w) ==
    /\ pc[w] = "stream_poll"
    /\ ~local[w].stop
    /\ local[w].attempts < MAX_ATTEMPTS
    /\ resp' = StreamEvent(local[w].pay, "poll", local[w].attempts + 1)
    /\ local' = [local EXCEPT ![w].attempts = @ + 1,
                              ![w].stop = QrStatus(local[w].pay) \in StopStatuses]
    /\ UNCHANGED <<now, ticks, storeVars, connVars, upgrades, trial_usage_log, pc>>

\* After the loop: the final status, and the generator ends.
StreamFinal(w) ==
    /\ pc[w] = "stream_poll"
    /\ local[w].stop \/ local[w].attempts >= MAX_ATTEMPTS
    /\ pc' = [pc EXCEPT ![w] = "idle"]
    /\ local' = [local EXCEPT ![w] = NoLocal]
    /\ resp' = StreamEvent(local[w].pay, "final", local[w].attempts)
    /\ UNCHANGED <<now, ticks, storeVars, connVars, upgrades, trial_usage_log>>

\* One stream, while another process creates and verifies payments.
NextStream ==
    \/ \E d \in PayTickSteps : Tick(d)
    \/ \E w \in SoloWorkers :
        \/ \E q \in PayIds : StreamStart(w, q)
        \/ StreamPoll(w)
        \/ StreamFinal(w)
    \/ \E w \in Workers \ SoloWorkers :
        \/ create_qr_payment_endpoint(w, GrantedUser, "pro_monthly", 99)
        \/ \E q \in PayIds : VerifyRead(w, q, GrantedUser)
        \/ VerifyWrite(w)

SpecStream == Init /\ [][NextStream]_vars

\* Provider webhooks arriving while payments are created, one request at a
\* time.
NextWebhook ==
    \E w \in SoloWorkers :
        \/ \E u \in Users, tier \in {"pro_monthly", "pro_yearly"} :
              create_qr_payment_endpoint(w, u, tier, EndpointPrice(tier))
        \/ \E d \in PayTickSteps : Idle(w) /\ Tick(d)
        \/ \E txn \in PayIds, amount \in Amounts : process_successful_payment(w, txn, amount)

SpecWebhook == Init /\ [][NextWebhook]_vars

\* Clock steps that let a monthly subscription run out.
EntitlementTickSteps == {MONTHLY_DAYS * MINUTES_PER_DAY + 1}

\* Every writer of the two entitlement tables, one request at a time.
NextEntitlement ==
    \E w \in SoloWorkers :
        \/ \E u \in Users : get_subscription_status(w, u)
        \/ \E u \in Users : upgrade_subscription(w, u, "pro_monthly")
        \/ \E u \in Users : cancel_subscription(w, u)
        \/ SweepRead(w)
        \/ SweepUpdate(w)
        \/ create_qr_payment(w, GrantedUser, "pro_monthly", AgenticPrice("pro_monthly"))
        \/ \E q \in PayIds : VerifyRead(w, q, GrantedUser)
        \/ VerifyWrite(w)
        \/ \E q \in PayIds : credit_system_verify(w, "qr", q, GrantedUser)
        \/ Idle(w) /\ give_pro_access
        \/ \E d \in EntitlementTickSteps : Idle(w) /\ Tick(d)

SpecEntitlement == Init /\ [][NextEntitlement]_vars

\* ---------------------------------------------------------------------
\* Trial sessions (agentic.py:2298-2383, 3741-3791, 3900-3918)

\* DAILY_TRIAL_LIMIT
DAILY_TRIAL_LIMIT == 5

\* the limit the route subtracts from (agentic.py:3773)
ROUTE_TRIAL_LIMIT == 10

TrialCallers == {"use_trial", "feature_access"}

\* SELECT COUNT(*) FROM trial_usage_log WHERE user_id = %s AND
\* DATE(used_at) = CURRENT_DATE
UsedTrials(u) == Len(trial_usage_log[u])

\* check_trial_eligibility (agentic.py:2298-2334) on the committed rows;
\* get_user_subscription has stored the free default for a user without row.
TrialEligible(u) ==
    /\ SubscriptionOf(user_subscriptions, u).tier = "free"
    /\ UsedTrials(u) < DAILY_TRIAL_LIMIT

\* max(0, 10 - used_today)
RemainingTrials(used_today) ==
    IF ROUTE_TRIAL_LIMIT - used_today > 0 THEN ROUTE_TRIAL_LIMIT - used_today ELSE 0

TrialResp(caller, u, success, remaining) ==
    [op |-> caller, user |-> u, success |-> success, remaining |-> remaining,
     used_today |-> UsedTrials(u)]

\* POST /trial/use (agentic.py:3741-3791) and check_feature_access
\* (agentic.py:3900-3918) up to the INSERT of use_trial_session: the
\* has_pro_access test of check_feature_access, the eligibility checks and
\* the count of use_trial_session (agentic.py:2353-2368).
TrialRead(w, caller, u, f) ==
    /\ Idle(w)
    /\ user_subscriptions' = EnsureSubscription(user_subscriptions, u)
    /\ UNCHANGED <<now, ticks, daily_credits, credit_usage_logs, pro_subscriptions,
                   payment_qr_codes, payment_transactions, sessionVars, connVars,
                   upgrades, trial_usage_log>>
    /\ IF caller = "feature_access" /\ HasProAccess(u)
       THEN Return(w, TrialResp(caller, u, TRUE, NULL))
       ELSE IF ~TrialEligible(u)
       THEN Return(w, TrialResp(caller, u, FALSE, NULL))
       ELSE Goto(w, "trial_insert", [op |-> caller, user |-> u, feature |-> f])

\* use_trial_session, the INSERT and commit (agentic.py:2371-2379), and the
\* count the route reports after it (agentic.py:3759-3781).
TrialInsert(w) ==
    /\ pc[w] = "trial_insert"
    /\ LET l == local[w] IN
       /\ trial_usage_log' = [trial_usage_log EXCEPT ![l.user] = Append(@, l.feature)]
       /\ pc' = [pc EXCEPT ![w] = "idle"]
       /\ local' = [local EXCEPT ![w] = NoLocal]
       /\ resp' = [op |-> l.op, user |-> l.user, success |-> TRUE,
                   remaining |-> IF l.op = "use_trial"
                                 THEN RemainingTrials(UsedTrials(l.user) + 1)
                                 ELSE NULL,
                   used_today |-> UsedTrials(l.user) + 1]
    /\ UNCHANGED <<now, ticks, ledgerVars, sessionVars, connVars, upgrades>>

\* Trial requests of one user handled by two server processes.
NextTrial ==
    \E w \in Workers :
        \/ \E caller \in TrialCallers, f \in GateFeatures :
              TrialRead(w, caller, GrantedUser, f)
        \/ TrialInsert(w)
        \/ upgrade_subscription(w, GrantedUser, "pro_monthly")

SpecTrial == Init /\ [][NextTrial]_vars

\* ------------------------------------------------------------------ claims

UsedToday(u) == IF daily_credits[u] = NoRow THEN 0 ELSE daily_credits[u].credits_used

ConsumeOps == {"gate", "consume_credit"}

\* C1: for every user, credits_used of today's record never exceeds
\* credits_limit, whatever the number of consume operations running at once.
C1_CapNeverExceeded ==
    \A u \in Users :
        daily_credits[u] # NoRow =>
            daily_credits[u].credits_used <= daily_credits[u].credits_limit

\* C2: while the user has active access (subscription PRO and not expired), no
\* step changes credits_used of today's record, and every consume answered for
\* that user is a success.
C2_ProBypassLeavesLedger ==
    [][\A u \in Users :
          HasProAccess(u) =>
              /\ UsedToday(u)' = UsedToday(u)
              /\ (resp'.op \in ConsumeOps /\ resp'.user = u => resp'.ok)]_vars

\* C6: for a user without active access, a consume that finds used >= limit
\* fails with remaining 0 and leaves used unchanged; otherwise it adds exactly
\* 1 to used and succeeds with remaining = limit - used - 1.
NoAccess(u) == ~HasProAccess(u) /\ ~GateIsPro(u)

C7_BypassOnlyWithAccess ==
    /\ \A u \in Users :
          HasProAccess(u) <=>
              /\ user_subscriptions[u] # NoRow
              /\ user_subscriptions[u].status = "pro"
              /\ \/ user_subscriptions[u].subscription_end_date = NULL
                 \/ user_subscriptions[u].subscription_end_date > now
    /\ (resp.op = "gate" /\ resp.kind = "pro") => HasProAccess(resp.user)

VerifyOps ==
    {"verify_qr", "cs_verify_qr", "cs_verify_manual", "cs_verify_automatic",
     "webhook", "verify_payment"}

\* C3: a verification of a payment that an earlier call completed answers
\* success, and the payment has triggered exactly one subscription upgrade.
C3_RepeatedVerifySucceeds ==
    (resp.op \in VerifyOps /\ resp.was_completed) =>
        /\ resp.ok
        /\ upgrades[resp.pay] = 1

\* C4: a subscription marked EXPIRED never carries an expires_at in the
\* future: an upgrade to a future expires_at that overlaps the expiry sweep
\* leaves the subscription PRO.
C4_UpgradeSurvivesSweep ==
    \A u \in Users :
        (user_subscriptions[u] # NoRow /\ user_subscriptions[u].status = "expired") =>
            /\ user_subscriptions[u].subscription_end_date # NULL
            /\ user_subscriptions[u].subscription_end_date < now

\* C5: a pending payment is completed at most once and triggers at most one
\* subscription upgrade, whatever verifications overlap.
C5_CompletedAtMostOnce == \A q \in PayIds : upgrades[q] <= 1

\* C8: when a verification entry point answers success for a pending payment
\* of user u, the committed store holds the payment as completed and u has
\* active access both for has_active_access and for the gate's pro bypass.
C8_SuccessMeansProAccess ==
    (resp.op \in VerifyOps /\ resp.ok /\ ~resp.was_completed) =>
        /\ payment_qr_codes[resp.pay] # NoRow
        /\ payment_qr_codes[resp.pay].status = "completed"
        /\ HasProAccess(resp.user)
        /\ GateIsPro(resp.user)

\* C9: no step completes a pending payment whose expires_at has passed, nor
\* upgrades a subscription for it.
C9_ExpiredNeverCompleted ==
    [][\A q \in PayIds :
          (/\ payment_qr_codes[q] # NoRow
           /\ payment_qr_codes[q].status = "pending"
           /\ payment_qr_codes[q].expires_at < now) =>
              /\ payment_qr_codes'[q] = payment_qr_codes[q]
              /\ upgrades'[q] = upgrades[q]]_vars

\* C10: when a run of the expiry sweep has returned, the users it returned
\* are exactly those it moved from PRO with a past expires_at to EXPIRED, no
\* PRO subscription with a past expires_at is left, and a user it returned
\* has neither active access nor the gate's pro bypass; the step that writes
\* the sweep changes no other subscription.
C10_SweepExpiresExactly ==
    (resp.op = "sweep") =>
        /\ resp.transitioned = resp.expired_users
        /\ ExpiredUsers = {}
        /\ \A u \in resp.expired_users :
              /\ user_subscriptions[u].status = "expired"
              /\ ~HasProAccess(u)
              /\ ~GateIsPro(u)

\* C11: a cancel of a subscription that is PRO with expires_at in the future
\* leaves the status CANCELLED and the user still with active access.
C11_CancelKeepsAccess ==
    [][\A u \in Users :
          (resp'.op = "cancel" /\ resp'.user = u /\ HasProAccess(u)) =>
              /\ user_subscriptions'[u].status = "cancelled"
              /\ HasProAccess(u)']_vars

\* C12: an upgrade of user u to tier t leaves the stored subscription of u
\* with status PRO, tier t, subscribed_at = now and expires_at = now + the
\* duration of t, whatever u's prior state (no row included).
C12_UpgradeStoresPro ==
    (resp.op = "upgrade") =>
        LET row == user_subscriptions[resp.user] IN
        /\ row # NoRow
        /\ row.status = "pro"
        /\ row.tier = resp.tier
        /\ row.subscription_start_date = now
        /\ row.subscription_end_date =
              now + MINUTES_PER_DAY *
                    (CASE resp.tier = "pro_monthly" -> MONTHLY_DAYS
                       [] resp.tier = "pro_yearly" -> YEARLY_DAYS
                       [] resp.tier = "pro_lifetime" -> LIFETIME_DAYS)

GatedOps == {"chat", "problem_solve", "quiz"}

Logs == [s \in SessionIds |->
            IF study_sessions[s] = NoRow THEN <<>> ELSE study_sessions[s].messages]

\* C13: in every gated handler the LLM call of a request happens only after
\* the gate answered allowed for that request; a request the gate denies ends
\* without an LLM call and without a change to any session's message log.
C13_LLMOnlyAfterAllow ==
    [][/\ \A w \in Workers : pc'[w] \in {"llm", "store_reply"} => local'[w].gate.ok
       /\ (resp'.op \in GatedOps /\ resp'.llm_calls > 0) => resp'.gate.ok
       /\ (resp'.op \in GatedOps /\ resp'.gate.kind # "none" /\ ~resp'.gate.ok) =>
             (resp'.llm_calls = 0 /\ Logs' = Logs)]_vars

\* A request the gate has denied has just ended.
C13_DeniedRequestEnded ==
    /\ resp.op \in GatedOps
    /\ resp.gate.kind = "insufficient"
    /\ \E s \in SessionIds : Len(Logs[s]) > 0

\* C14: while the store is unreachable the gate denies and neither the gate,
\* the subscription lookup nor the upgrade reports an allowance or a PRO
\* subscription.
C14_FailsClosed ==
    ~db_up =>
        /\ (resp.op = "gate" => ~resp.ok)
        /\ (resp.op = "subscription" => resp.status # "pro" /\ ~resp.is_active)
        /\ (resp.op = "upgrade" => resp.status # "pro")

\* C15: a gated request on a missing session is answered 404, and one denied
\* for insufficient credit is answered 402 or 403 with credits_remaining 0;
\* neither is answered as a server failure.
C15_DenialsKeepOutcome ==
    resp.op \in GatedOps =>
        /\ (resp.raised = 404 => resp.status = 404)
        /\ (resp.gate.kind = "insufficient" =>
               resp.status \in {402, 403} /\ resp.gate.remaining = 0)

IsSuffix(a, b) == Len(a) <= Len(b) /\ a = SubSeq(b, Len(b) - Len(a) + 1, Len(b))

Front(seq) == SubSeq(seq, 1, Len(seq) - 1)

\* C16: a sequential add_message of m on session s leaves the stored log
\* equal to the earlier log followed by m, and the context returned for s
\* ends with m after messages of the earlier context, in their order.
C16_AppendKeepsOrder ==
    [][\A s \in SessionIds :
          (resp'.op = "add_message" /\ resp'.found /\ resp'.session = s) =>
              LET before == GetContext(Logs[s], DEFAULT_MAX_MESSAGES)
                  after == GetContext(Logs'[s], DEFAULT_MAX_MESSAGES)
              IN /\ Logs'[s] = Append(Logs[s], resp'.message)
                 /\ after # <<>>
                 /\ after[Len(after)] = resp'.message
                 /\ IsSuffix(Front(after), before)]_vars

\* Two different messages have been appended one after the other and the
\* context has just been read.
C16_TwoAppendedInOrder ==
    /\ resp.op = "get_context"
    /\ Len(resp.messages) = MaxLog
    /\ resp.messages[MaxLog - 1] # resp.messages[MaxLog]
    /\ Len(resp.context) = MaxLog - 1

NonSystem(messages) == SelectSeq(messages, LAMBDA m : m.role # "system")

LastK(seq, k) == IF Len(seq) > k THEN SubSeq(seq, Len(seq) - k + 1, Len(seq)) ELSE seq

\* C17: get_conversation_context(s, max_messages = k) returns the last k
\* non-system messages of the stored log (all of them when there are fewer),
\* in their order, whatever the log.
C17_LastKNonSystem ==
    resp.op = "get_context" =>
        resp.context = LastK(NonSystem(resp.messages), resp.max_messages)

Present(s) == study_sessions[s] # NoRow

\* last_activity older than MAX_SESSION_DURATION, for a session that exists.
Stale(s) == study_sessions[s].last_activity < now - SESSION_LIFETIME

\* C18: when a run of the session sweep ends, every session it found older
\* than MAX_SESSION_DURATION is absent from the store, and every session
\* whose last_activity is within MAX_SESSION_DURATION is still present.
C18_SweepReapsExactly ==
    [][resp'.op = "session_sweep" =>
          \A s \in SessionIds :
              /\ (\E w \in Workers : /\ pc[w] = "session_sweep_delete"
                                     /\ pc'[w] = "idle"
                                     /\ s \in local[w].expired_sessions)
                     => ~Present(s)'
              /\ (Present(s) /\ ~Stale(s)) => Present(s)']_vars

\* C19: a session that has been ended or reaped has no row from then on,
\* whatever append, touch or lookup runs or was running on it, and
\* get_session on it answers not found.
C19_NoResurrection ==
    \A s \in ended :
        /\ ~Present(s)
        /\ (resp.op = "get_session" /\ resp.session = s) => ~resp.found

\* An add_message that had read the session before its row was deleted has
\* just run its UPDATE.
C19_AppendAfterDelete ==
    \E s \in ended :
        /\ resp.op = "add_message"
        /\ resp.session = s
        /\ resp.found

Occurrences(seq, m) == Cardinality({i \in DOMAIN seq : seq[i] = m})

\* C20: when an add_message on a session completes, the stored log holds
\* every message the completed add_message calls put there before, and the
\* new message once more: no completed append is lost, whatever the
\* interleaving of the calls' reads and writes.
C20_NoAppendLost ==
    [][\A s \in SessionIds :
          (resp'.op = "add_message" /\ resp'.found /\ resp'.session = s /\ Present(s)) =>
              \A m \in AnyMessages \cup {WELCOME_MESSAGE} :
                  Occurrences(Logs'[s], m) =
                      Occurrences(Logs[s], m) + (IF m = resp'.message THEN 1 ELSE 0)]_vars

\* C21: the last_activity of a session never decreases, whatever the
\* sequence and interleaving of create, touch and add_message on it.
C21_LastActivityMonotone ==
    [][\A s \in SessionIds :
          (Present(s) /\ Present(s)') =>
              study_sessions'[s].last_activity >= study_sessions[s].last_activity]_vars

\* C22: when get_status has answered for a user, a record of (user, today)
\* exists, the answer shows its used, limit and remaining = limit - used,
\* and the call has left credits_used as it was.
C22_StatusLeavesOneRecord ==
    [][\A u \in Users :
          (resp'.op = "credit_status" /\ resp'.user = u) =>
              /\ resp'.ok
              /\ UsedToday(u)' = UsedToday(u)
              /\ daily_credits'[u] # NoRow
              /\ resp'.credits_used = UsedToday(u)'
              /\ resp'.credits_remaining = resp'.credits_limit - resp'.credits_used]_vars

C24_RolesAlternate ==
    resp.op = "prepare" =>
        /\ resp.prepared[1].role = "system"
        /\ Len(resp.prepared) > 1 => resp.prepared[2].role = "user"
        /\ \A i \in 1 .. Len(resp.prepared) - 1 :
               resp.prepared[i].role # resp.prepared[i + 1].role

\* C25: every status the stream emits is the payment's current one, a
\* pending payment past its expires_at being reported as expired; the
\* stream polls at most 360 times and leaves the loop on the first poll
\* that reports completed or expired.
C25_StreamStopsOnExpiry ==
    [][resp'.op = "stream_event" =>
          LET row == payment_qr_codes[resp'.pay] IN
          /\ resp'.attempts <= 360
          /\ row # NoRow =>
                resp'.status = IF row.status = "pending" /\ row.expires_at < now
                               THEN "expired" ELSE row.status
          /\ \A w \in Workers :
                (pc'[w] = "stream_poll" /\ resp'.phase = "poll"
                    /\ resp'.status \in {"completed", "expired"}) => local'[w].stop]_vars

\* C26: a webhook for transaction X selects only the payment whose
\* payment_id is X, completes it when it is pending, and changes no
\* other payment and no subscription but its owner's, equal amounts or not.
C26_WebhookCompletesOnlyItsPayment ==
    [][resp'.op = "webhook" =>
          LET X == resp'.pay IN
          /\ resp'.payment_record \subseteq {X}
          /\ \A q \in PayIds \ {X} : payment_qr_codes'[q] = payment_qr_codes[q]
          /\ IF payment_qr_codes[X] # NoRow
             THEN /\ \A u \in Users \ {payment_qr_codes[X].user_id} :
                        user_subscriptions'[u] = user_subscriptions[u]
                  /\ payment_qr_codes[X].status = "pending" =>
                        payment_qr_codes'[X].status = "completed"
             ELSE user_subscriptions' = user_subscriptions]_vars

\* C27: POST /credits/consume answers with the success flag that
\* check_and_consume_credit gives for the same (user, feature) on the
\* same state, and leaves the credits_used that the gate would leave.
C27_ConsumeEquivalent ==
    [][\A u \in Users, f \in RequestFeatures :
          (resp'.op = "consume_credit" /\ resp'.user = u /\ resp'.feature = f) =>
              /\ resp'.ok = GateOutcome(u, f).ok
              /\ UsedToday(u)' = UsedToday(u) + GateOutcome(u, f).debit]_vars

\* C28: in every reachable state the gate's entitlement (a 'pro' row in
\* pro_subscriptions) and the manager's (has_pro_access over
\* user_subscriptions) agree for every user.
C28_EntitlementsAgree ==
    \A u \in Users : GateIsPro(u) <=> HasProAccess(u)

\* C29: a user never has more than 5 trial_usage_log rows for one day,
\* and the remaining count reported by a successful use is 5 minus the
\* rows the user has used that day.
C29_TrialLimit ==
    /\ \A u \in Users : Len(trial_usage_log[u]) <= 5
    /\ (resp.op = "use_trial" /\ resp.success) =>
          resp.remaining = 5 - Len(trial_usage_log[resp.user])

\* C30: a gated request of a user without a 'pro' row whose credits for
\* today are not exhausted is never denied, whether or not another
\* request of the user has created today's record in the meantime.
C30_ConsumeNeverDenied ==
    [][\A u \in Users :
          (resp'.op = "gate" /\ resp'.user = u /\ ~GateIsPro(u)
              /\ UsedToday(u) < DEFAULT_CREDITS_LIMIT) => resp'.ok]_vars

====
